---------------------------- MODULE Spec2Model ----------------------------
(***************************************************************************)
(* The purchase-analysis dashboard of tiagoswt/costumer_app as a state     *)
(* machine.  The repository holds two variants of one Streamlit script:    *)
(*   customer_app.py  semicolon CSV, (userId, email) keys, brand derived   *)
(*                    from ref, guarded date parsing;                      *)
(*   costumer_app.py  comma CSV, userId keys, brand column supplied.       *)
(* A Streamlit script runs top to bottom on every interaction, so every    *)
(* action below is "change one input, then run the whole script again";    *)
(* what the pass rendered is kept in `page`.                               *)
(*                                                                         *)
(* Strings that the script sorts, compares or rewrites (userId, email,     *)
(* ref, brand) are sequences of one-character strings.  A timestamp is a   *)
(* record [day, tod]: a day number and a time of day (0 is midnight).      *)
(***************************************************************************)
EXTENDS Integers, Sequences, FiniteSets

VARIABLES
    app,            \* which of the two files is served
    PASSWORD,       \* os.getenv("STREAMLIT_PASSWORD")
    session_state,  \* st.session_state: password_correct and password
    uploaded_file,  \* the file in the sidebar uploader
    widgets,        \* the values of the filter and analysis widgets
    page            \* what the last pass of the script rendered

vars == <<app, PASSWORD, session_state, uploaded_file, widgets, page>>

-----------------------------------------------------------------------------
(* Bounds of the model.                                                    *)

\* Longest uploaded table, in rows.
MaxRows == 2

-----------------------------------------------------------------------------
(* Strings.                                                                *)

\* The characters the model uses, in ASCII order.
Ascii == <<" ", "-", "1", "2", "@", "A", "B", "C", "Z", "a", "d", "l", "m",
           "n", "o", "r", "s", "t", "u", "z">>

Ord(c) == CHOOSE i \in 1..Len(Ascii) : Ascii[i] = c

AsciiLetters == {"A", "B", "C", "Z", "a", "d", "l", "m", "n", "o", "r", "s",
                 "t", "u", "z"}

\* Python's str comparison, which pandas uses to sort object columns.
StrLess(a, b) ==
    \E i \in 1..Len(b) :
        /\ i <= Len(a) + 1
        /\ \A j \in 1..(i - 1) : a[j] = b[j]
        /\ (i = Len(a) + 1 \/ Ord(a[i]) < Ord(b[i]))

\* Tuples of strings, compared column by column (a group key, a sort key).
KeyLess(k1, k2) ==
    \E i \in 1..Len(k1) :
        /\ \A j \in 1..(i - 1) : k1[j] = k2[j]
        /\ StrLess(k1[i], k2[i])

\* A missing CSV cell: pandas reads it as NaN.
NaN == <<"NaN">>

AllBrands == <<"A", "l", "l", " ", "B", "r", "a", "n", "d", "s">>
AllCustomers == <<"A", "l", "l", " ", "C", "u", "s", "t", "o", "m", "e", "r", "s">>

Range(s) == {s[i] : i \in 1..Len(s)}

\* The rows of t at the indices I, in their order in t.
Take(t, I) ==
    [p \in 1..Cardinality(I) |->
        t[CHOOSE i \in I : Cardinality({j \in I : j < i}) = p - 1]]

RECURSIVE SumSeq(_)
SumSeq(s) == IF s = <<>> THEN 0 ELSE Head(s) + SumSeq(Tail(s))

\* The quantity column of a table.
Quantities(t) == [i \in 1..Len(t) |-> t[i].quantity]

-----------------------------------------------------------------------------
(* Timestamps.                                                             *)

Ts(d, t) == [day |-> d, tod |-> t]

TsLeq(a, b) == a.day < b.day \/ (a.day = b.day /\ a.tod <= b.tod)

\* Series.max() / Series.min() of a date column.
MaxDate(t) == CHOOSE x \in {t[i].date : i \in 1..Len(t)} :
                  \A i \in 1..Len(t) : TsLeq(t[i].date, x)
MinDate(t) == CHOOSE x \in {t[i].date : i \in 1..Len(t)} :
                  \A i \in 1..Len(t) : TsLeq(x, t[i].date)

\* pd.to_datetime of a datetime.date (what st.date_input returns): midnight.
ToDatetime(d) == Ts(d, 0)

\* Series.between(left, right), inclusive="both".
Between(x, left, right) == TsLeq(left, x) /\ TsLeq(x, right)

\* The subtraction with its operands exchanged.
TimedeltaDaysReversed(a, b) ==
    (b.day - a.day) - (IF b.tod < a.tod THEN 1 ELSE 0)

\* (a - b).dt.days: the day component of a Timedelta, the floor of the
\* difference in days.
TimedeltaDays(a, b) == (a.day - b.day) - (IF a.tod < b.tod THEN 1 ELSE 0)

-----------------------------------------------------------------------------
(* The uploads the model draws from.                                       *)

U1 == <<"u", "1">>
U2 == <<"u", "2">>
MailA == <<"a", "@", "m">>
MailB == <<"B", "@", "m">>

RefA1 == <<"A", "-", "1">>
RefA2 == <<"A", "2">>
RefZ1 == <<"Z", "1", "z">>
RefNoLetters == <<"1", "2">>

Row(u, e, r, b, d, q) ==
    [userId |-> u, email |-> e, ref |-> r, brand |-> b, date |-> d,
     quantity |-> q]

\* The CSV lines uploads are made of, in date order.  The e-mail cell of
\* the third line is empty; the brand cell is read only when the file has a
\* brand column.  The purchases lie 0, 100, 151 and just over 181 days after the
\* first, so that 30, 51, 81, 100, 151 and 181 days of Recency occur.
RowPool ==
    << Row(U1, MailA, RefA1, <<"A">>, Ts(0, 0), 1),
       Row(U2, MailB, RefZ1, <<"Z">>, Ts(100, 0), 2),
       Row(U2, NaN, RefA2, <<"A">>, Ts(151, 0), 2),
       Row(U1, MailA, RefZ1, <<"Z">>, Ts(181, 1), 1) >>

\* An uploaded table: up to MaxRows of the lines, in date order.
Tables ==
    {Take(RowPool, I) : I \in {J \in SUBSET (1..Len(RowPool)) :
                                  Cardinality(J) \in 1..MaxRows}}

NoFile == [present |-> FALSE, has_date |-> FALSE, bad_date |-> 0,
           has_brand |-> FALSE, rows |-> <<>>]

\* An uploaded CSV: its rows, whether it has a date and a brand column, and
\* the row (0: none) whose date cell does not parse.
File(t, hd, bd, hb) ==
    [present |-> TRUE, has_date |-> hd, bad_date |-> bd, has_brand |-> hb,
     rows |-> t]

\* Files in the schema of the variant: customer_app.py reads files without
\* a brand column, costumer_app.py files with one.
SchemaFiles(a) == {File(t, TRUE, 0, a = "costumer_app") : t \in Tables}

\* The lines of the one-row files: those of RowPool and one whose ref has
\* no letter.
OddRows == RowPool \o <<Row(U1, MailA, RefNoLetters, <<"B">>, Ts(0, 0), 1)>>

\* Files off the schema, of one row: no date column, a date that does not
\* parse, a brand column where none is expected or none where one is.
OddFiles ==
    {File(<<OddRows[i]>>, hd, bd, hb) :
        i \in 1..Len(OddRows), hd \in BOOLEAN, bd \in 0..1, hb \in BOOLEAN}

Files(a) == SchemaFiles(a) \cup OddFiles

-----------------------------------------------------------------------------
(* Schema normalisation.                                                   *)

IsAsciiLetter(c) == c \in AsciiLetters

\* df["ref"].str.replace(r"[^a-zA-Z]+", "", regex=True)
DeriveBrand(ref) == SelectSeq(ref, IsAsciiLetter)

\* customer_app.py: the date column is checked and parsed under try/except,
\* and the brand column is always written from ref.
LoadCustomerApp(file) ==
    IF ~file.has_date \/ file.bad_date # 0
    THEN [status |-> "error_stop", df |-> <<>>]
    ELSE [status |-> "ok",
          df |-> [i \in 1..Len(file.rows) |->
                    [file.rows[i] EXCEPT !.brand = DeriveBrand(file.rows[i].ref)]]]

\* costumer_app.py: pd.to_datetime(df["date"]) and df["brand"] are used
\* unguarded; a missing column or a bad date raises.
LoadCostumerApp(file) ==
    IF ~file.has_date \/ file.bad_date # 0 \/ ~file.has_brand
    THEN [status |-> "exception", df |-> <<>>]
    ELSE [status |-> "ok", df |-> file.rows]

\* A load that leaves out the row whose date does not parse and goes on.
LoadSkippingBadDates(a, file) ==
    LET parsed == [file EXCEPT
                      !.bad_date = 0,
                      !.rows = Take(file.rows,
                                    (1..Len(file.rows)) \ {file.bad_date})]
    IN  IF a = "customer_app" THEN LoadCustomerApp(parsed)
        ELSE LoadCostumerApp(parsed)

Load(a, file) ==
    IF a = "customer_app" THEN LoadCustomerApp(file) ELSE LoadCostumerApp(file)

\* Series.unique() as a set (the options of a selectbox or multiselect).
Unique(df, col) == {df[i][col] : i \in 1..Len(df)}

-----------------------------------------------------------------------------
(* Filtering.                                                              *)

DateMask(r, w) ==
    Between(r.date, ToDatetime(w.selected_date_range[1]),
            ToDatetime(w.selected_date_range[2]))

\* customer_app.py: three successive selections.
FilterCustomerApp(df, w) ==
    LET InBrand(r) == r.brand \in w.selected_brand
        IsCustomer(r) == r.userId = w.selected_customer
        InRange(r) == DateMask(r, w)
        byBrand == IF AllBrands \notin w.selected_brand
                   THEN SelectSeq(df, InBrand) ELSE df
        byCustomer == IF w.selected_customer # AllCustomers
                      THEN SelectSeq(byBrand, IsCustomer) ELSE byBrand
    IN  SelectSeq(byCustomer, InRange)

\* costumer_app.py: one boolean mask.
FilterCostumerApp(df, w) ==
    LET Mask(r) ==
            /\ (w.selected_brand = {AllBrands} \/ r.brand \in w.selected_brand)
            /\ (w.selected_customer = AllCustomers
                    \/ r.userId = w.selected_customer)
            /\ DateMask(r, w)
    IN  SelectSeq(df, Mask)

Filter(a, df, w) ==
    IF a = "customer_app" THEN FilterCustomerApp(df, w)
    ELSE FilterCostumerApp(df, w)

-----------------------------------------------------------------------------
(* Grouping and segmentation.                                              *)

\* The sorted sequence of a set of keys.
SortKeys(S) ==
    [n \in 1..Cardinality(S) |->
        CHOOSE k \in S : Cardinality({y \in S : KeyLess(y, k)}) = n - 1]

\* The key of row r under groupby(by): its values in the columns by.
Key(r, by) == [n \in 1..Len(by) |-> r[by[n]]]

\* DataFrame.groupby(by): one group per key, in key order (sort=True).  A
\* row with NaN in a key column belongs to no group (dropna=True).
GroupBy(t, by) ==
    LET valid == {i \in 1..Len(t) : NaN \notin Range(Key(t[i], by))}
        keys == SortKeys({Key(t[i], by) : i \in valid})
    IN  [n \in 1..Len(keys) |->
            [key |-> keys[n],
             rows |-> Take(t, {i \in valid : Key(t[i], by) = keys[n]})]]

SegmentLabels == <<"Active", "Warm", "Cold", "Lost">>

\* A value pd.cut puts in no bin.
NoSegment == "NaN"

\* The bins argument of pd.cut in each file.
Bins(a) ==
    IF a = "customer_app" THEN <<0, 30, 90, 180, 9999>>
    ELSE <<-1, 30, 90, 180, 9999>>

\* pd.cut(x, bins, labels): bin i is (bins[i], bins[i+1]] (right=True,
\* include_lowest=False).
Cut(x, bins, labels) ==
    IF \E i \in 1..Len(labels) : bins[i] < x /\ x <= bins[i + 1]
    THEN labels[CHOOSE i \in 1..Len(labels) : bins[i] < x /\ x <= bins[i + 1]]
    ELSE NoSegment

\* The baseline taken from the rows the filter kept.
max_date_of_view(df, filtered_df) == MaxDate(filtered_df)

\* The baseline taken from the first date of the table.
min_date_of_table(df, filtered_df) == MinDate(df)

\* The baseline of Recency: df["date"].max(), of the whole table.
max_date(df, filtered_df) == MaxDate(df)

\* groupby(keys).agg(date max, ref count, quantity sum), Recency, Segment.
Summary(a, df, filtered_df, by) ==
    LET groups == GroupBy(filtered_df, by)
    IN  [n \in 1..Len(groups) |->
            LET g == groups[n]
                last == MaxDate(g.rows)
                recency == TimedeltaDays(max_date(df, filtered_df), last)
            IN  [key |-> g.key,
                 LastPurchaseDate |-> last,
                 Frequency |-> Len(g.rows),
                 Monetary |-> SumSeq(Quantities(g.rows)),
                 Recency |-> recency,
                 Segment |-> Cut(recency, Bins(a), SegmentLabels)]]

\* The columns that identify a customer in each file.
CustomerKey(a) ==
    IF a = "customer_app" THEN <<"userId", "email">> ELSE <<"userId">>

BrandCustomerKey(a) ==
    IF a = "customer_app" THEN <<"brand", "userId", "email">>
    ELSE <<"brand", "userId">>

customer_summary(a, df, filtered_df) ==
    Summary(a, df, filtered_df, CustomerKey(a))

segmentation_summary(a, df, filtered_df) ==
    Summary(a, df, filtered_df, BrandCustomerKey(a))

\* One cell of the Percentage view, (x / x.sum()) * 100, as the fraction
\* num/den; den = 0 is the float NaN that 0/0 gives.
Percent(count, total) == [num |-> count * 100, den |-> total]

\* The default of groupby(observed=) in the pandas 1.x and 2.x the scripts
\* were written for.
observed == FALSE

\* groupby(["brand", "Segment"]).size().unstack(fill_value=0), then the
\* row-wise percentage.  Segment is categorical: with observed=False every
\* brand of segmentation_summary gets a row and every label a column; with
\* observed=True only the pairs that occur.
brand_segment_summary(seg, view_type, obs) ==
    LET binned == {i \in 1..Len(seg) : seg[i].Segment # NoSegment}
        brands == IF obs THEN {<<seg[i].key[1]>> : i \in binned}
                  ELSE {<<seg[i].key[1]>> : i \in 1..Len(seg)}
        index == SortKeys(brands)
        columns == IF obs
                   THEN SelectSeq(SegmentLabels,
                                  LAMBDA l : \E i \in binned : seg[i].Segment = l)
                   ELSE SegmentLabels
        Size(b, l) == Cardinality({i \in binned :
                                     seg[i].key[1] = b /\ seg[i].Segment = l})
        Total(b) == Cardinality({i \in binned :
                                   seg[i].key[1] = b
                                   /\ seg[i].Segment \in Range(columns)})
    IN  [n \in 1..Len(index) |->
            LET b == index[n][1]
            IN  [brand |-> b,
                 cells |-> [l \in Range(columns) |->
                              IF view_type = "Percentage"
                              THEN Percent(Size(b, l), Total(b))
                              ELSE [num |-> Size(b, l), den |-> 1]]]]

-----------------------------------------------------------------------------
(* Rankings.                                                               *)

\* groupby(cols)["quantity"].sum().reset_index()
SumBy(t, by) ==
    LET groups == GroupBy(t, by)
    IN  [n \in 1..Len(groups) |->
            [key |-> groups[n].key,
             quantity |-> SumSeq(Quantities(groups[n].rows))]]

\* sort_values(["brand", "quantity"], ascending=[True, False])
BrandThenQuantity(x, y) ==
    \/ StrLess(x.key[1], y.key[1])
    \/ (x.key[1] = y.key[1] /\ x.quantity > y.quantity)

\* sort_values(ascending=False) on quantity
QuantityDescending(x, y) == x.quantity > y.quantity

\* sort_values(by=["brand", "ref", "quantity"], ascending=[True, True, False])
BrandRefThenQuantity(x, y) ==
    \/ KeyLess(<<x.key[1], x.key[2]>>, <<y.key[1], y.key[2]>>)
    \/ (x.key[1] = y.key[1] /\ x.key[2] = y.key[2] /\ x.quantity > y.quantity)

\* Whether x sorts strictly before y under sort_values(by).
Before(by, x, y) ==
    IF by = <<"brand", "quantity">> THEN BrandThenQuantity(x, y)
    ELSE IF by = <<"brand", "ref", "quantity">> THEN BrandRefThenQuantity(x, y)
    ELSE QuantityDescending(x, y)

\* sort_values: a stable sort, rows that compare equal keep their order.
SortValues(t, by) ==
    [p \in 1..Len(t) |->
        t[CHOOSE i \in 1..Len(t) :
            Cardinality({j \in 1..Len(t) :
                \/ Before(by, t[j], t[i])
                \/ (~Before(by, t[i], t[j]) /\ j < i)}) = p - 1]]

\* .head(k)
HeadRows(t, k) == SubSeq(t, 1, IF k < Len(t) THEN k ELSE Len(t))

\* .groupby("brand").head(k): the first k rows of every brand, in place.
HeadPerBrand(t, k) ==
    Take(t, {i \in 1..Len(t) :
                Cardinality({j \in 1..(i - 1) : t[j].key[1] = t[i].key[1]}) < k})

brand_sales(filtered_df) ==
    SortValues(SumBy(filtered_df, <<"brand">>), <<"quantity">>)

top_customers_by_brand(a, filtered_df, top_k) ==
    HeadPerBrand(SortValues(SumBy(filtered_df, BrandCustomerKey(a)),
                            <<"brand", "quantity">>),
                 top_k)

top_products(filtered_df, top_k_products) ==
    HeadRows(SortValues(SumBy(filtered_df, <<"ref">>), <<"quantity">>),
             top_k_products)

top_products_by_brand(filtered_df, selected_top_brand, top_k_brands) ==
    LET OfBrand(r) == r.brand = selected_top_brand
    IN  IF selected_top_brand = AllBrands
        THEN HeadPerBrand(
                 SortValues(SumBy(filtered_df, <<"brand", "ref">>),
                            <<"brand", "quantity">>),
                 top_k_brands)
        ELSE HeadRows(
                 SortValues(SumBy(SelectSeq(filtered_df, OfBrand),
                                  <<"brand", "ref">>),
                            <<"quantity">>),
                 top_k_brands)

top_products_by_brand_by_customer(a, filtered_df) ==
    SortValues(SumBy(filtered_df,
                     IF a = "customer_app"
                     THEN <<"brand", "ref", "userId", "email">>
                     ELSE <<"brand", "ref", "userId">>),
               <<"brand", "ref", "quantity">>)

-----------------------------------------------------------------------------
(* The purchase-pattern histogram.                                         *)

\* The width of a histogram bucket.
BucketWidth == 1000

\* period_1 and period_2 are left at their default, the first and last day
\* of the table; both periods then select the same rows.
period_sales(df, filtered_df) ==
    LET InPeriod(r) == Between(r.date, ToDatetime(MinDate(df).day),
                               ToDatetime(MaxDate(df).day))
    IN  SumBy(SelectSeq(filtered_df, InPeriod), <<"userId">>)

MaxQuantity(sales) ==
    CHOOSE m \in {sales[i].quantity : i \in 1..Len(sales)} :
        \A i \in 1..Len(sales) : sales[i].quantity <= m

\* customer_app.py takes 0 for an empty period; costumer_app.py calls
\* max() on the empty series, which raises ValueError.
max_val(a, sales) ==
    IF sales # <<>> THEN [raised |-> FALSE, value |-> MaxQuantity(sales)]
    ELSE IF a = "customer_app" THEN [raised |-> FALSE, value |-> 0]
    ELSE [raised |-> TRUE, value |-> 0]

\* list(range(0, max_val + 1000, 1000)) and pd.cut(...).value_counts():
\* the number of customers in each bucket (lo, lo + 1000].
period_hist(sales, top) ==
    LET nbins == (top + BucketWidth + BucketWidth - 1) \div BucketWidth
    IN  [b \in 1..(nbins - 1) |->
            Cardinality({i \in 1..Len(sales) :
                /\ (b - 1) * BucketWidth < sales[i].quantity
                /\ sales[i].quantity <= b * BucketWidth})]

-----------------------------------------------------------------------------
(* One pass of the script.                                                 *)

\* min_value= of the three sliders, and value= of each.
SliderMin == 1
TopKDefault == 5
TopKProductsDefault == 10
TopKBrandsDefault == 5

\* The state of the widgets right after a table is loaded.
DefaultWidgets(df) ==
    [selected_date_range |->
         IF df = <<>> THEN <<0, 0>> ELSE <<MinDate(df).day, MaxDate(df).day>>,
     selected_customer |-> AllCustomers,
     selected_brand |-> {AllBrands},
     analysis_type |-> "Customer Analysis",
     view_type |-> "Total Value",
     top_k |-> TopKDefault,
     top_k_products |-> TopKProductsDefault,
     selected_top_brand |-> AllBrands,
     top_k_brands |-> TopKBrandsDefault]

\* A page on which nothing is rendered yet.
EmptyPage ==
    [stage |-> "password_prompt", ran |-> {}, df |-> <<>>,
     filtered_df |-> <<>>, customer_summary |-> <<>>,
     segmentation_summary |-> <<>>, brand_segment_summary |-> <<>>,
     period_hist |-> <<>>, brand_sales |-> <<>>,
     top_customers_by_brand |-> <<>>, top_products |-> <<>>,
     top_products_by_brand |-> <<>>,
     top_products_by_brand_by_customer |-> <<>>]

\* check_password letting a session in as soon as the flag exists.
check_password_any_flag(ss) == ss.password_correct # "absent"

\* The return value of check_password: the flag, once set and true.
check_password(ss) == ss.password_correct = "True"

\* The branch of check_password that renders the password input.
PasswordPage(ss) ==
    [EmptyPage EXCEPT !.stage = IF ss.password_correct = "absent"
                                THEN "password_prompt"
                                ELSE "password_incorrect"]

\* The data operations every pass over a loaded table runs.
LoadedOps == {"file_uploader", "read_csv", "filter"}

CustomerAnalysis(a, df, filtered_df, w, obs) ==
    LET seg == segmentation_summary(a, df, filtered_df)
        sales == period_sales(df, filtered_df)
        top == max_val(a, sales)
    IN  [EmptyPage EXCEPT
            !.stage = IF top.raised THEN "exception" ELSE "rendered",
            !.ran = LoadedOps \cup {"customer_summary", "segmentation_summary",
                                    "brand_segment_summary", "period_sales"},
            !.df = df,
            !.filtered_df = filtered_df,
            !.customer_summary = customer_summary(a, df, filtered_df),
            !.segmentation_summary = seg,
            !.brand_segment_summary =
                brand_segment_summary(seg, w.view_type, obs),
            !.period_hist = IF top.raised THEN <<>>
                            ELSE period_hist(sales, top.value)]

BrandAnalysis(a, df, filtered_df, w) ==
    [EmptyPage EXCEPT
        !.stage = "rendered",
        !.ran = LoadedOps \cup {"brand_sales", "top_customers_by_brand"},
        !.df = df,
        !.filtered_df = filtered_df,
        !.brand_sales = brand_sales(filtered_df),
        !.top_customers_by_brand =
            top_customers_by_brand(a, filtered_df, w.top_k)]

\* A pass that filters the table in place: df is the filtered table after it.
ProductAnalysisInPlace(a, df, filtered_df, w) ==
    [EmptyPage EXCEPT
        !.stage = "rendered",
        !.ran = LoadedOps \cup {"top_products", "top_products_by_brand",
                                "top_products_by_brand_by_customer"},
        !.df = filtered_df,
        !.filtered_df = filtered_df,
        !.top_products = top_products(filtered_df, w.top_k_products),
        !.top_products_by_brand =
            top_products_by_brand(filtered_df, w.selected_top_brand,
                                  w.top_k_brands),
        !.top_products_by_brand_by_customer =
            top_products_by_brand_by_customer(a, filtered_df)]

ProductAnalysis(a, df, filtered_df, w) ==
    [EmptyPage EXCEPT
        !.stage = "rendered",
        !.ran = LoadedOps \cup {"top_products", "top_products_by_brand",
                                "top_products_by_brand_by_customer"},
        !.df = df,
        !.filtered_df = filtered_df,
        !.top_products = top_products(filtered_df, w.top_k_products),
        !.top_products_by_brand =
            top_products_by_brand(filtered_df, w.selected_top_brand,
                                  w.top_k_brands),
        !.top_products_by_brand_by_customer =
            top_products_by_brand_by_customer(a, filtered_df)]

\* The script from its first line to its last, or to the line that stops it.
Script(a, ss, file, w, obs) ==
    IF ~check_password(ss) THEN PasswordPage(ss)
    ELSE IF ~file.present
    THEN [EmptyPage EXCEPT !.stage = "awaiting_upload",
                           !.ran = {"file_uploader"}]
    ELSE
      LET loaded == Load(a, file)
          filtered_df == Filter(a, loaded.df, w)
      IN  IF loaded.status # "ok"
          THEN [EmptyPage EXCEPT !.stage = loaded.status,
                                 !.ran = {"file_uploader", "read_csv"}]
          ELSE IF w.analysis_type = "Customer Analysis"
          THEN CustomerAnalysis(a, loaded.df, filtered_df, w, obs)
          ELSE IF w.analysis_type = "Brand Analysis"
          THEN BrandAnalysis(a, loaded.df, filtered_df, w)
          ELSE ProductAnalysis(a, loaded.df, filtered_df, w)

-----------------------------------------------------------------------------
(* The session.                                                            *)

\* What can be typed into the password box.
Typed == {"", "hunter2", "letmein"}

\* The secret; "None" stands for an unset STREAMLIT_PASSWORD, which equals
\* nothing that can be typed.
Secrets == {"hunter2", "None"}

AnalysisTypes == {"Customer Analysis", "Brand Analysis", "Product Analysis"}

\* The days st.date_input is set to: the days of the table and the day
\* after its last.
DateChoices(df) == {df[i].date.day : i \in 1..Len(df)} \cup {MaxDate(df).day + 1}

\* Where a slider is put: at its minimum or at its default.  No brand of
\* RowPool has more than two customers or two products, so every way a
\* per-brand ranking can be cut occurs.
SliderChoices(default) == {SliderMin, default}

\* The script runs again after every interaction.
Rerun == page' = Script(app, session_state', uploaded_file', widgets', observed)

Init ==
    /\ app \in {"customer_app", "costumer_app"}
    /\ PASSWORD \in Secrets
    /\ session_state = [password_correct |-> "absent", password |-> ""]
    /\ uploaded_file = NoFile
    /\ widgets = DefaultWidgets(<<>>)
    /\ page = Script(app, session_state, uploaded_file, widgets, observed)

\* A callback that serves the first attempt of a session only.
password_entered_once(p) ==
    /\ session_state.password_correct = "absent"
    /\ session_state' =
           IF p = PASSWORD
           THEN [password_correct |-> "True", password |-> ""]
           ELSE [password_correct |-> "False", password |-> p]
    /\ UNCHANGED <<app, PASSWORD, uploaded_file, widgets>>
    /\ Rerun

\* A callback that stays bound to the page after the session is let in.
password_entered_still_bound(p) ==
    /\ p # session_state.password
    /\ session_state' =
           IF p = PASSWORD
           THEN [password_correct |-> "True", password |-> ""]
           ELSE [password_correct |-> "False", password |-> p]
    /\ UNCHANGED <<app, PASSWORD, uploaded_file, widgets>>
    /\ Rerun

\* on_change of the password box.
password_entered(p) ==
    /\ ~check_password(session_state)
    /\ p # session_state.password
    /\ session_state' =
           IF p = PASSWORD
           THEN [password_correct |-> "True", password |-> ""]
           ELSE [password_correct |-> "False", password |-> p]
    /\ UNCHANGED <<app, PASSWORD, uploaded_file, widgets>>
    /\ Rerun

\* A file is put into the empty uploader.  The filter widgets are built
\* from the table, so they start from their defaults.
upload(f) ==
    /\ "file_uploader" \in page.ran
    /\ ~uploaded_file.present
    /\ uploaded_file' = f
    /\ widgets' = DefaultWidgets(Load(app, f).df)
    /\ UNCHANGED <<app, PASSWORD, session_state>>
    /\ Rerun

\* The file is taken out of the uploader (its x button); the widgets of the
\* loaded page are not rendered any more.  Replacing a file is taking it
\* out and putting the next one in.
remove_file ==
    /\ "file_uploader" \in page.ran
    /\ uploaded_file.present
    /\ uploaded_file' = NoFile
    /\ widgets' = DefaultWidgets(<<>>)
    /\ UNCHANGED <<app, PASSWORD, session_state>>
    /\ Rerun

\* A widget of the loaded page is set to v.
SetWidget(name, v) ==
    /\ "filter" \in page.ran
    /\ v # widgets[name]
    /\ widgets' = [widgets EXCEPT ![name] = v]
    /\ UNCHANGED <<app, PASSWORD, session_state, uploaded_file>>
    /\ Rerun

select_date_range ==
    /\ "filter" \in page.ran
    /\ \E s \in DateChoices(page.df), e \in DateChoices(page.df) :
           s <= e /\ SetWidget("selected_date_range", <<s, e>>)

select_customer ==
    \E c \in {AllCustomers} \cup Unique(page.df, "userId") :
        SetWidget("selected_customer", c)

\* One option of the multiselect is ticked or unticked.
select_brand ==
    \E b \in {AllBrands} \cup Unique(page.df, "brand") :
        SetWidget("selected_brand",
                  IF b \in widgets.selected_brand
                  THEN widgets.selected_brand \ {b}
                  ELSE widgets.selected_brand \cup {b})

\* The widgets of the branch that is left are not rendered any more and
\* start from their defaults when it is entered again.
select_analysis_type ==
    \E t \in AnalysisTypes :
        /\ "filter" \in page.ran
        /\ t # widgets.analysis_type
        /\ widgets' = [widgets EXCEPT
                          !.analysis_type = t,
                          !.view_type = "Total Value",
                          !.top_k = TopKDefault,
                          !.top_k_products = TopKProductsDefault,
                          !.selected_top_brand = AllBrands,
                          !.top_k_brands = TopKBrandsDefault]
        /\ UNCHANGED <<app, PASSWORD, session_state, uploaded_file>>
        /\ Rerun

select_view_type ==
    \E v \in {"Total Value", "Percentage"} :
        /\ widgets.analysis_type = "Customer Analysis"
        /\ SetWidget("view_type", v)

slide_top_k ==
    \E k \in SliderChoices(TopKDefault) :
        /\ widgets.analysis_type = "Brand Analysis"
        /\ SetWidget("top_k", k)

slide_top_k_products ==
    \E k \in SliderChoices(TopKProductsDefault) :
        /\ widgets.analysis_type = "Product Analysis"
        /\ SetWidget("top_k_products", k)

select_top_brand ==
    \E b \in {AllBrands} \cup Unique(page.df, "brand") :
        /\ widgets.analysis_type = "Product Analysis"
        /\ SetWidget("selected_top_brand", b)

slide_top_k_brands ==
    \E k \in SliderChoices(TopKBrandsDefault) :
        /\ widgets.analysis_type = "Product Analysis"
        /\ SetWidget("top_k_brands", k)

Next ==
    \/ \E p \in Typed : password_entered(p)
    \/ \E f \in Files(app) : upload(f)
    \/ remove_file
    \/ select_date_range
    \/ select_customer
    \/ select_brand
    \/ select_analysis_type
    \/ select_view_type
    \/ slide_top_k
    \/ slide_top_k_products
    \/ select_top_brand
    \/ slide_top_k_brands

Spec == Init /\ [][Next]_vars

-----------------------------------------------------------------------------
(* Properties.                                                             *)

\* The data operations of a pass: everything from the uploader on.
DataOpsRan == page.ran # {}

Loaded == "filter" \in page.ran

\* The rows of a rendered table.
RowsOf(t) == {t[i] : i \in 1..Len(t)}

\* C1: data operations (uploader, CSV load, filter, analysis views) run only
\* in a pass in which password_correct is True, and the flag becomes True
\* only by the password callback with the entered password equal to the
\* secret.
C1_PasswordGate ==
    /\ [](DataOpsRan => session_state.password_correct = "True")
    /\ [][(session_state'.password_correct = "True"
              /\ session_state.password_correct # "True")
            => password_entered(PASSWORD)]_vars

\* Reached: a table is loaded and an analysis view is rendered behind the
\* gate.
C1_Witness == Loaded /\ page.stage = "rendered" /\ page.filtered_df # <<>>

\* The three predicates of a filter spec, as the specification states them.
DatePredicate(r, w) ==
    /\ TsLeq(ToDatetime(w.selected_date_range[1]), r.date)
    /\ TsLeq(r.date, ToDatetime(w.selected_date_range[2]))

CustomerPredicate(r, w) ==
    w.selected_customer = AllCustomers \/ r.userId = w.selected_customer

BrandPredicate(r, w) ==
    AllBrands \in w.selected_brand \/ r.brand \in w.selected_brand

\* C2: the filtered table holds exactly the rows of the canonical table
\* that satisfy the date, the customer and the brand predicate.
C2_FilterExact ==
    Loaded =>
        LET Satisfies(r) == /\ DatePredicate(r, widgets)
                            /\ CustomerPredicate(r, widgets)
                            /\ BrandPredicate(r, widgets)
        IN  page.filtered_df = SelectSeq(page.df, Satisfies)

\* C3: with "All Brands" among the selected brands, alone or not, no row is
\* dropped because of its brand: every row in the date range and of the
\* selected customer is kept.
C3_AllBrandsSentinel ==
    (Loaded /\ AllBrands \in widgets.selected_brand) =>
        \A i \in 1..Len(page.df) :
            (DatePredicate(page.df[i], widgets)
                 /\ CustomerPredicate(page.df[i], widgets))
                => page.df[i] \in RowsOf(page.filtered_df)

\* The rows of both summaries of the Customer Analysis.
SummaryRows ==
    RowsOf(page.customer_summary) \cup RowsOf(page.segmentation_summary)

\* The table of the specification: 0-30 Active, 31-90 Warm, 91-180 Cold,
\* more than 180 Lost.
SegmentTable(recency) ==
    IF recency >= 0 /\ recency <= 30 THEN "Active"
    ELSE IF recency >= 31 /\ recency <= 90 THEN "Warm"
    ELSE IF recency >= 91 /\ recency <= 180 THEN "Cold"
    ELSE IF recency > 180 THEN "Lost"
    ELSE "undefined"

\* C4: the Segment of every summary row follows the table from its Recency,
\* in the per-customer and in the per-(brand, customer) summary.
C4_SegmentTable ==
    \A s \in SummaryRows : s.Segment = SegmentTable(s.Recency)

\* C5: every summary row has a Segment, one of Active, Warm, Cold, Lost.
C5_SegmentTotal ==
    \A s \in SummaryRows : s.Segment \in Range(SegmentLabels)

\* The latest date of the filtered rows that make up a summary row.
LatestInView(s) ==
    LET members == {i \in 1..Len(page.filtered_df) :
                       \/ Key(page.filtered_df[i], CustomerKey(app)) = s.key
                       \/ Key(page.filtered_df[i], BrandCustomerKey(app))
                              = s.key}
    IN  CHOOSE d \in {page.filtered_df[i].date : i \in members} :
            \A i \in members : TsLeq(page.filtered_df[i].date, d)

\* C6: the Recency of a summary row is the number of whole days from the
\* group's latest date in the filtered table to the latest date of the
\* whole table, whatever the filter.
C6_RecencyBaseline ==
    \A s \in SummaryRows :
        s.Recency = TimedeltaDays(MaxDate(page.df), LatestInView(s))

\* Reached: the filter has cut off the latest purchases of the table, and a
\* customer's Recency counts the days to a date that is not in the view.
C6_Witness ==
    /\ page.customer_summary # <<>>
    /\ widgets.selected_date_range[2] < MaxDate(page.df).day
    /\ MaxDate(page.filtered_df) # MaxDate(page.df)
    /\ \E s \in SummaryRows : s.Recency > 0

Column(t, name) == [i \in 1..Len(t) |-> t[i][name]]

\* C7: grouping loses no transaction: Monetary sums to the quantity of the
\* filtered table and Frequency to its number of rows.
C7_Conservation ==
    "customer_summary" \in page.ran =>
        /\ SumSeq(Column(page.customer_summary, "Monetary"))
               = SumSeq(Quantities(page.filtered_df))
        /\ SumSeq(Column(page.customer_summary, "Frequency"))
               = Len(page.filtered_df)

\* C8: in Percentage view a row of the brand-by-segment table sums to 100
\* when the brand has a counted row, and is 0 in every cell when it has none.
\* A cell is the fraction num / den; den = 0 is the undefined 0 / 0.
C8_PercentageRows ==
    ("brand_segment_summary" \in page.ran /\ widgets.view_type = "Percentage")
        => \A n \in 1..Len(page.brand_segment_summary) :
              LET row == page.brand_segment_summary[n]
                  InRow(l) == l \in DOMAIN row.cells
                  labels == SelectSeq(SegmentLabels, InRow)
                  total == Cardinality(
                      {i \in 1..Len(page.segmentation_summary) :
                          /\ page.segmentation_summary[i].key[1] = row.brand
                          /\ InRow(page.segmentation_summary[i].Segment)})
                  nums == [k \in 1..Len(labels) |-> row.cells[labels[k]].num]
              IN  IF total # 0
                  THEN /\ \A l \in DOMAIN row.cells : row.cells[l].den = total
                       /\ SumSeq(nums) = 100 * total
                  ELSE \A l \in DOMAIN row.cells :
                          row.cells[l].num = 0 /\ row.cells[l].den # 0

\* The groups of t under Key with their summed quantity; an absent value in
\* the key is a value like any other.
Aggregated(t, by) ==
    {[key |-> Key(t[i], by),
      quantity |-> SumSeq(Quantities(
                       SelectSeq(t, LAMBDA r : Key(r, by) = Key(t[i], by))))]
        : i \in 1..Len(t)}

\* ranking holds, for every brand, the k largest of the brand's groups (all
\* of them when there are fewer), largest first.
RankedPerBrand(ranking, groups, k) ==
    /\ \A n \in 1..Len(ranking) : ranking[n] \in groups
    /\ \A g \in groups :
          LET kept == {n \in 1..Len(ranking) : ranking[n].key[1] = g.key[1]}
              all == {h \in groups : h.key[1] = g.key[1]}
          IN  /\ Cardinality(kept) <= k
              /\ Cardinality(kept) = IF Cardinality(all) < k
                                     THEN Cardinality(all) ELSE k
              /\ g \notin Range(ranking)
                    => \A n \in kept : g.quantity <= ranking[n].quantity
              /\ \A m, n \in kept :
                    m < n => ranking[m].quantity >= ranking[n].quantity

\* C9: the per-brand rankings (top customers by brand; top products by brand
\* with All Brands selected) keep at most k rows of a brand, the ones with
\* the k largest summed quantities of the brand, in descending order.
C9_TopKPerBrand ==
    /\ "top_customers_by_brand" \in page.ran
          => RankedPerBrand(page.top_customers_by_brand,
                            Aggregated(page.filtered_df,
                                       BrandCustomerKey(app)),
                            widgets.top_k)
    /\ ("top_products_by_brand" \in page.ran
            /\ widgets.selected_top_brand = AllBrands)
          => RankedPerBrand(page.top_products_by_brand,
                            Aggregated(page.filtered_df, <<"brand", "ref">>),
                            widgets.top_k_brands)

\* C10: when the filter keeps no row, the pass of every analysis view runs
\* to its end and every summary it shows is empty.
C10_EmptyFilter ==
    (Loaded /\ page.filtered_df = <<>>) =>
        /\ page.stage = "rendered"
        /\ page.customer_summary = <<>>
        /\ page.segmentation_summary = <<>>
        /\ page.brand_segment_summary = <<>>
        /\ page.period_hist = <<>>
        /\ page.brand_sales = <<>>
        /\ page.top_customers_by_brand = <<>>
        /\ page.top_products = <<>>
        /\ page.top_products_by_brand = <<>>
        /\ page.top_products_by_brand_by_customer = <<>>

\* The uploaded file has no date column, or a date cell that does not parse.
BadDateFile ==
    /\ uploaded_file.present
    /\ (~uploaded_file.has_date \/ uploaded_file.bad_date # 0)

\* The pass ended on an error shown on the page: the script's own st.error
\* followed by st.stop, or the exception box of an uncaught exception.
ErrorShown == page.stage \in {"error_stop", "exception"}

\* C11: a file without a date column, or with a date that does not parse,
\* ends the pass on an error in both files: no table is produced, no row is
\* left out to go on, and nothing after the load runs.
C11_DateFatal ==
    BadDateFile =>
        /\ ErrorShown
        /\ page.df = <<>>
        /\ page.filtered_df = <<>>
        /\ page.ran = {"file_uploader", "read_csv"}

\* Reached: costumer_app.py, which has no handler of its own, is given a
\* file whose date does not parse.
C11_Witness ==
    /\ app = "costumer_app"
    /\ uploaded_file.present
    /\ uploaded_file.has_date
    /\ uploaded_file.bad_date # 0
    /\ page.stage = "exception"

\* C12: a wrong password shows the prompt again with the error, and however
\* many wrong passwords were entered the correct one can be entered next,
\* sets password_correct and opens the page.
C12_NoLockout ==
    /\ []((~check_password(session_state) /\ PASSWORD \in Typed)
             => ENABLED password_entered(PASSWORD))
    /\ [][(\E p \in Typed \ {PASSWORD} : password_entered(p))
             => /\ session_state'.password_correct = "False"
                /\ page'.stage = "password_incorrect"]_vars
    /\ [][password_entered(PASSWORD)
             => /\ session_state'.password_correct = "True"
                /\ "file_uploader" \in page'.ran]_vars

\* Reached: a wrong password was entered and the secret can be typed.
C12_Witness ==
    /\ session_state.password_correct = "False"
    /\ page.stage = "password_incorrect"
    /\ PASSWORD \in Typed

\* ref without the characters that are no ASCII letter: the letters in
\* their order and case.
RECURSIVE LettersOf(_)
LettersOf(ref) ==
    IF ref = <<>> THEN <<>>
    ELSE IF Head(ref) \in AsciiLetters
    THEN <<Head(ref)>> \o LettersOf(Tail(ref))
    ELSE LettersOf(Tail(ref))

\* C13: every row of a file with a date column that parses is kept; its
\* brand is the letters of its ref when the file has no brand column, and
\* the brand of the file when it has one.
C13_Brand ==
    (uploaded_file.present /\ ~BadDateFile) =>
        /\ Loaded
        /\ page.df =
             [i \in 1..Len(uploaded_file.rows) |->
                 [uploaded_file.rows[i] EXCEPT
                     !.brand = IF uploaded_file.has_brand
                               THEN uploaded_file.rows[i].brand
                               ELSE LettersOf(uploaded_file.rows[i].ref)]]

NarrowsDateRange ==
    /\ Loaded
    /\ "filter" \in page'.ran
    /\ uploaded_file' = uploaded_file
    /\ widgets' = [widgets EXCEPT
                      !.selected_date_range = widgets'.selected_date_range]
    /\ widgets.selected_date_range[1] <= widgets'.selected_date_range[1]
    /\ widgets'.selected_date_range[2] <= widgets.selected_date_range[2]

\* C15: when the date range is narrowed and nothing else changes, a
\* customer in the summary before and after has a Recency after that is
\* at least the Recency before.
C15_NarrowingMonotone ==
    [][NarrowsDateRange =>
          \A i \in 1..Len(page.customer_summary),
             j \in 1..Len(page'.customer_summary) :
              page.customer_summary[i].key = page'.customer_summary[j].key
                  => page'.customer_summary[j].Recency
                         >= page.customer_summary[i].Recency]_vars

\* The customer summary of the same table with the date range opened to
\* hold every row.
WidestSummary ==
    customer_summary(app, page.df,
        Filter(app, page.df,
               [widgets EXCEPT !.selected_date_range =
                   <<MinDate(page.df).day, MaxDate(page.df).day + 1>>]))

\* Reached: the range is narrowed and a customer who is in the summary
\* under both ranges has a Recency above the one under the widest range.
C15_Witness ==
    /\ page.customer_summary # <<>>
    /\ widgets.selected_date_range[2] < MaxDate(page.df).day
    /\ \E i \in 1..Len(page.customer_summary), j \in 1..Len(WidestSummary) :
          /\ page.customer_summary[i].key = WidestSummary[j].key
          /\ page.customer_summary[i].Recency > WidestSummary[j].Recency

\* C16: once password_correct is True no step sets it back or removes it,
\* no pass shows the password prompt again, and the password callback
\* cannot run.
C16_NeverReset ==
    /\ [][session_state.password_correct = "True"
             => /\ session_state'.password_correct = "True"
                /\ page'.stage \notin {"password_prompt",
                                       "password_incorrect"}]_vars
    /\ [](session_state.password_correct = "True"
             => ~ENABLED (\E p \in Typed : password_entered(p)))

\* Reached: a session that was let in, has a table loaded and has left the
\* first analysis.
C16_Witness ==
    /\ session_state.password_correct = "True"
    /\ Loaded
    /\ widgets.analysis_type # "Customer Analysis"

\* The filter widgets as they stand right after the load.
DefaultFilter ==
    /\ widgets.selected_date_range
           = <<MinDate(page.df).day, MaxDate(page.df).day>>
    /\ widgets.selected_customer = AllCustomers
    /\ widgets.selected_brand = {AllBrands}

\* C17: with the filter widgets at their defaults the filtered table is the
\* whole table, rows of the last day after midnight included.
C17_DefaultKeepsAll ==
    (Loaded /\ DefaultFilter) => page.filtered_df = page.df

\* C18: the Recency of every row of both summaries is 0 or more.
C18_RecencyNonNegative ==
    \A s \in SummaryRows : s.Recency >= 0

\* Reached: the summaries hold a group that bought on the table's last
\* date and one that did not.
C18_Witness ==
    \E s, t \in SummaryRows : s.Recency = 0 /\ t.Recency > 0

=============================================================================
